---- MODULE Spec2Model ----
(***************************************************************************)
(* Carrefour promo watcher: the policy-gated acquisition chain             *)
(* (allowed_by_robots -> fetch_with_playwright -> fetch_requests over      *)
(* PROMO_URLS), the text mining of extract_promos, the message built by    *)
(* job_once, and the two triggers (daily cron, Telegram /now) of main.     *)
(*                                                                         *)
(* Two programs live in the repository and both are modelled:              *)
(*   "headless"  src/promo_watcher_headless.py  (asyncio, Playwright)      *)
(*   "basic"     src/promo_watcher.py           (synchronous, requests)    *)
(*                                                                         *)
(* Four specifications share the variables:                                *)
(*   Spec         the whole service: cycles of job_once, both triggers     *)
(*   SpecExtract  extract_promos and the message, on growing pages         *)
(*   SpecRobots   allowed_by_robots, call after call                       *)
(*   SpecBrowser  fetch_with_playwright, statement by statement            *)
(*                                                                         *)
(* Text is a sequence of one-character strings; "U2212" stands for the     *)
(* Unicode minus sign, "NL" for a line break.                              *)
(***************************************************************************)
EXTENDS Integers, Sequences, FiniteSets, TLC

\* ------------------------------------------------------------------ text

Digits == <<"0", "1", "2", "3", "4", "5", "6", "7", "8", "9">>

DigitChars == {Digits[i] : i \in 1..10}

IsDigit(c) == c \in DigitChars

DigitVal(c) == (CHOOSE i \in 1..10 : Digits[i] = c) - 1

IsSpace(c) == c \in {" ", "NL"}

Max(S) == CHOOSE x \in S : \A y \in S : y <= x

Abs(v) == IF v < 0 THEN -v ELSE v

\* str.strip(): leading and trailing whitespace removed.
Strip(s) ==
    IF \A i \in 1..Len(s) : IsSpace(s[i]) THEN <<>>
    ELSE SubSeq(s,
                CHOOSE i \in 1..Len(s) :
                    ~IsSpace(s[i]) /\ \A j \in 1..(i - 1) : IsSpace(s[j]),
                CHOOSE i \in 1..Len(s) :
                    ~IsSpace(s[i]) /\ \A j \in (i + 1)..Len(s) : IsSpace(s[j]))

\* " ".join(s.split()): stripped, every run of whitespace becomes one space.
\* Character i of the stripped text t contributes itself, one space for the
\* first whitespace of a run, nothing for the rest of the run.  The range
\* lo..hi is folded by halves.
RECURSIVE CollapseRange(_, _, _)
CollapseRange(t, lo, hi) ==
    IF lo > hi THEN <<>>
    ELSE IF lo = hi
    THEN IF ~IsSpace(t[lo]) THEN <<t[lo]>>
         ELSE IF IsSpace(t[lo - 1]) THEN <<>>
         ELSE <<" ">>
    ELSE CollapseRange(t, lo, (lo + hi) \div 2)
         \o CollapseRange(t, (lo + hi) \div 2 + 1, hi)

Collapse(s) == LET t == Strip(s) IN CollapseRange(t, 1, Len(t))

\* s[:n]
Prefix(s, n) == SubSeq(s, 1, IF Len(s) < n THEN Len(s) ELSE n)

\* int(digits) with an optional leading ASCII minus.
RECURSIVE ParseNat(_)
ParseNat(ds) ==
    IF ds = <<>> THEN 0
    ELSE 10 * ParseNat(SubSeq(ds, 1, Len(ds) - 1)) + DigitVal(ds[Len(ds)])

ParseInt(g) ==
    IF g[1] = "-" THEN 0 - ParseNat(Tail(g)) ELSE ParseNat(g)

\* str.replace("U2212", "-")
ReplaceMinus(g) == [i \in 1..Len(g) |-> IF g[i] = "U2212" THEN "-" ELSE g[i]]

\* ---------------------------------------------------------------- PCT_RE
\* (-?\d{1,3})\s?%  matched at position i of s.  A match is the record
\* [from, to, group]: s[from..to] is the match, group is group(1).

\* \s?% at position p: the position of the "%" it ends on, 0 when none.
PctTail(s, p) ==
    IF p + 1 <= Len(s) /\ IsSpace(s[p]) /\ s[p + 1] = "%" THEN p + 1
    ELSE IF p <= Len(s) /\ s[p] = "%" THEN p
    ELSE 0

\* \d{1,3}\s?% with the digits starting at j: greedy, backtracking on the
\* number of digits.  The number of digits taken, 0 when no match.
PctDigits(s, j) ==
    IF j > Len(s) \/ ~IsDigit(s[j]) THEN 0
    ELSE LET ks == {k \in 1..3 :
                      /\ j + k - 1 <= Len(s)
                      /\ \A d \in j..(j + k - 1) : IsDigit(s[d])
                      /\ PctTail(s, j + k) # 0}
         IN  IF ks = {} THEN 0 ELSE Max(ks)

NoMatch == [from |-> 0, to |-> 0, group |-> <<>>]

PctMatchAt(s, i) ==
    LET withMinus == IF s[i] = "-" THEN PctDigits(s, i + 1) ELSE 0
        plain == PctDigits(s, i)
    IN  IF withMinus # 0
        THEN [from |-> i, to |-> PctTail(s, i + 1 + withMinus),
              group |-> SubSeq(s, i, i + withMinus)]
        ELSE IF plain # 0
        THEN [from |-> i, to |-> PctTail(s, i + plain),
              group |-> SubSeq(s, i, i + plain - 1)]
        ELSE NoMatch

\* Every position of s where PCT_RE matches.
PctStarts(s) == {j \in 1..Len(s) : PctMatchAt(s, j).from # 0}

\* PCT_RE.finditer(s): the leftmost match at or after position i, then the
\* leftmost one after its end, and so on (non-overlapping, in text order).
RECURSIVE PctScan(_, _, _)
PctScan(s, starts, i) ==
    LET rest == {j \in starts : j >= i}
    IN  IF rest = {} THEN <<>>
        ELSE LET m == PctMatchAt(s, CHOOSE j \in rest : \A k \in rest : j <= k)
             IN  <<m>> \o PctScan(s, starts, m.to + 1)

PctFindIter(s) == PctScan(s, PctStarts(s), 1)

\* PCT_RE.search(s) is not None
PctSearch(s) == \E i \in 1..Len(s) : PctMatchAt(s, i).from # 0

\* ------------------------------------------------------------- documents
\* A parsed page (the BeautifulSoup tree) is the sequence of its elements in
\* document order, each with its tag, its class and data-testid attributes
\* and its text.

Pad(n) == [i \in 1..n |-> "a"]

Element(tag, cls, testid, text) ==
    [tag |-> tag, cls |-> cls, testid |-> testid, text |-> text]

\* 'sub' in s
Contains(s, sub) ==
    \E i \in 1..(Len(s) - Len(sub) + 1) : SubSeq(s, i, i + Len(sub) - 1) = sub

LowerCard == <<"c", "a", "r", "d">>
UpperCard == <<"C", "a", "r", "d">>

\* soup.select("[class*='card'], [class*='Card'], article, li
\*              [, [data-testid*='card']]")
SelectsCard(v, e) ==
    \/ Contains(e.cls, LowerCard)
    \/ Contains(e.cls, UpperCard)
    \/ e.tag \in {"article", "li"}
    \/ v = "headless" /\ Contains(e.testid, LowerCard)

\* [t.strip() for t in soup.find_all(string=True) if t.strip()]
RECURSIVE text_blobs(_)
text_blobs(d) ==
    IF d = <<>> THEN <<>>
    ELSE LET t == Strip(Head(d).text)
         IN  (IF t = <<>> THEN <<>> ELSE <<t>>) \o text_blobs(Tail(d))

\* " \n".join(blobs)
RECURSIVE JoinBlobs(_)
JoinBlobs(bs) ==
    IF bs = <<>> THEN <<>>
    ELSE IF Len(bs) = 1 THEN bs[1]
    ELSE bs[1] \o <<" ", "NL">> \o JoinBlobs(Tail(bs))

full_text(d) == JoinBlobs(text_blobs(d))

\* found: int(m.group(1).replace("U2212", "-")) for every match, in order.
found(d) ==
    LET ms == PctFindIter(full_text(d))
    IN  [k \in 1..Len(ms) |-> ParseInt(ReplaceMinus(ms[k].group))]

THRESHOLD == 50
SNIPPET_LEN == 220
MAX_CARDS == 5
MAX_LISTED == 5

\* hits = [v for v in found if abs(v) >= 50]
HitFilter(v) == Abs(v) >= THRESHOLD

hits_of(d) == SelectSeq(found(d), HitFilter)

\* sorted(S, reverse=True)
RECURSIVE SortedReverse(_)
SortedReverse(S) ==
    IF S = {} THEN <<>> ELSE <<Max(S)>> \o SortedReverse(S \ {Max(S)})

Range(q) == {q[i] : i \in 1..Len(q)}

\* sorted(set(hits), reverse=True)
sorted_hits(d) == SortedReverse(Range(hits_of(d)))

\* " ".join(card.get_text(separator=" ", strip=True).split())
snippet_of(e) == Collapse(e.text)

\* snippet[:220]
cut_snippet(sn) == Prefix(sn, SNIPPET_LEN)

\* the loop over soup.select(...): one snippet per selected element whose
\* text holds a percentage token, in document order.
RECURSIVE cards_of(_, _)
cards_of(v, d) ==
    IF d = <<>> THEN <<>>
    ELSE LET snippet == snippet_of(Head(d))
         IN  (IF SelectsCard(v, Head(d)) /\ PctSearch(snippet)
              THEN <<cut_snippet(snippet)>> ELSE <<>>)
             \o cards_of(v, Tail(d))

\* Mutant of cap_cards: every snippet is kept.
Mut_cap_cards_unbounded(cs) == cs

\* cards[:5]
cap_cards(cs) == Prefix(cs, MAX_CARDS)

extract_promos(v, d) ==
    [hits |-> sorted_hits(d), cards |-> cap_cards(cards_of(v, d))]

\* job_once's header: len(hits) and str(abs(v))+'%' for v in hits[:5]
AlertHeader(hits) ==
    [count |-> Len(hits),
     listed |-> [k \in 1..Len(Prefix(hits, MAX_LISTED)) |-> Abs(hits[k])]]

\* ------------------------------------------------------------ input pools
MaxTextNodes == 3
MaxCardNodes == 6

P(text) == Element("p", <<>>, <<>>, text)

TextNodes ==
    { P(<<"-", "5", "5", "%">>),
      P(<<"5", "5", "%">>),
      P(<<"U2212", "5", "5", "%">>),
      P(<<" ", "-", "9", "9", " ", "%">>),
      P(<<"6", "0", "%", " ", "-", "3", "0", "%">>),
      P(<<"1", "2", "5", "0", "%">>),
      P(<<"5", "0">>),
      P(<<"%", "NL">>) }

CardNodes ==
    { Element("li", <<>>, <<>>, <<"-", "5", "5", "%", " ", "NL", " ", "x">>),
      Element("div", <<"p", "-">> \o LowerCard, <<>>,
              Pad(SNIPPET_LEN - 1) \o <<" ", " ", "-", "6", "0", "%">>),
      Element("article", <<>>, <<>>, <<"b", "i", "o">>),
      Element("div", <<"C", "A", "R", "D">>, <<"x", "-">> \o LowerCard,
              <<"9", "0", " ", "%">>) }

\* ------------------------------------------------------------ the program
Variants == {"headless", "basic"}

\* PROMO_URLS of the headless program, PROMO_URL of the basic one.
PROMO_URLS == <<"promotions", "soldes">>
PROMO_URL == "promotions"

CandidateUrls(v) == IF v = "headless" THEN PROMO_URLS ELSE <<PROMO_URL>>

UrlSet == {PROMO_URLS[i] : i \in 1..Len(PROMO_URLS)}

\* The coroutines that can run job_once: the scheduler's daily job, the /now
\* handler, and main itself when started with the argument "now".
Tasks == {"cron", "now", "cli"}

MaxCycles == 2

\* What the fetch of /robots.txt can come back with: an HTTP error status, a
\* transport error, bytes that are not UTF-8, text that holds no rule at all,
\* or a policy that disallows the URLs of `disallow` for USER_AGENT.
RobotsReply(kind, code, disallow) ==
    [kind |-> kind, code |-> code, disallow |-> disallow]

RobotsReplies ==
    {RobotsReply("http", c, {}) : c \in {401, 403, 404, 500}}
    \cup {RobotsReply(k, 0, {}) : k \in {"urlerror", "undecodable"}}
    \cup {RobotsReply("garbage", 200, {})}
    \cup {RobotsReply("policy", 200, S) : S \in SUBSET UrlSet}

\* rp.read() raises (URLError, UnicodeDecodeError); an HTTPError is handled
\* inside read().
RobotsReadRaises(reply) == reply.kind \in {"urlerror", "undecodable"}

\* rp.can_fetch(user_agent, url) after rp.read() returned: 401/403 set
\* disallow_all, any other 4xx sets allow_all, a 5xx leaves the parser
\* unread (last_checked = 0: nothing may be fetched).
RobotsCanFetch(reply, url) ==
    IF reply.kind = "http"
    THEN reply.code \notin {401, 403} /\ reply.code >= 400 /\ reply.code < 500
    ELSE url \notin reply.disallow

\* The default when robots.txt cannot be read: allowed in the headless
\* program, refused in the basic one.
RobotsDefault(v) == v = "headless"

\* Before any call: no reply was read.
NoReply == RobotsReply("none", 0, {})

\* Mutant of policy_used: the parser of the previous call is kept and its
\* policy answers the next calls.
Mut_policy_cached(prev, fresh) == IF prev.kind # "none" THEN prev ELSE fresh

\* lines 36-39: `rp = RobotFileParser()` is built and read in every call;
\* the policy asked is the one just read.
policy_used(prev, fresh) == fresh

\* line 33 (headless only): SKIP_ROBOTS returns before any parser is built.
robots_fetched(v, skip) == ~(v = "headless" /\ skip)

allowed_by_robots(v, skip, reply, url) ==
    IF v = "headless" /\ skip THEN TRUE
    ELSE IF RobotsReadRaises(reply) THEN RobotsDefault(v)
    ELSE RobotsCanFetch(reply, url)

\* Pages a fetch can return.
PageNames == {"quiet", "promo"}

PageDoc(name) ==
    IF name = "promo"
    THEN <<Element("li", <<>>, <<>>, <<"-", "5", "5", "%", " ", "x">>),
           P(<<"6", "0", "%">>)>>
    ELSE <<P(<<"5", "0">>)>>

NoErr == [by |-> "none", url |-> "none"]
GenericErr == [by |-> "RuntimeError", url |-> "all"]
NoResult == [url |-> "none", page |-> "none"]
NoHeader == [count |-> 0, listed |-> <<>>]
NoMsg == [kind |-> "unset", err |-> NoErr, header |-> NoHeader,
          cards |-> <<>>, url |-> "none"]

Op(op, url, res, page) == [op |-> op, url |-> url, res |-> res, page |-> page]

\* Mutant of gate_skips: the answer of the gate is ignored.
Mut_gate_never_skips(allowed) == FALSE

\* line 163: `if not allowed_by_robots(url): ... continue`
gate_skips(allowed) == ~allowed

\* Mutant of after_playwright_ok: the `return` is missing and the code
\* falls through to the requests fallback.
Mut_after_playwright_ok_falls_through == "req"

\* line 171: `return url, html` after the Playwright fetch succeeded
after_playwright_ok == "extract"

\* Mutant of after_playwright_fail: the candidate is tried again from the
\* gate instead of falling back to requests.
Mut_after_playwright_fail_retries == "gate"

\* lines 172-179: the Playwright failure is recorded, then requests is tried
after_playwright_fail == "req"

\* Mutant of raise_last_err: the generic error is raised whatever happened.
Mut_raise_generic(le) == GenericErr

\* line 186: `raise last_err or RuntimeError(...)`
raise_last_err(le) == IF le # NoErr THEN le ELSE GenericErr

\* job_once, lines 193-195: the message of a failed acquisition
ErrorMsg(e) == [NoMsg EXCEPT !.kind = "error", !.err = e]

\* job_once, lines 198-208 (basic: 89-99): the message of an extraction.
\* The basic program's "none found" message names no URL.
compose(v, r, url) ==
    IF r.hits # <<>>
    THEN [NoMsg EXCEPT !.kind = "alert", !.header = AlertHeader(r.hits),
                       !.cards = r.cards, !.url = url]
    ELSE [NoMsg EXCEPT !.kind = "nothing",
                       !.url = IF v = "headless" THEN url ELSE "none"]

VARIABLES
    variant,     \* which of the two programs runs
    argNow,      \* sys.argv[1] is "now"
    token,       \* TELEGRAM_BOT_TOKEN is set
    chat,        \* TELEGRAM_CHAT_ID is set
    skipRobots,  \* SKIP_ROBOTS
    mainpc,      \* main: "start", "service", "once", "exit"
    scheduler,   \* "none", "configured" (add_job only), "running"
    handler,     \* the /now CommandHandler is registered and polled
    loop,        \* the task that holds the interpreter, "free" when none
    cycles,      \* job_once calls started so far
    pc,          \* per task: where it is
    idx,         \* per task: index into the candidate list
    last_err,    \* per task: fetch_first_ok's last_err
    got,         \* per task: what the acquisition returned
    ops,         \* per task: gate checks and fetches of the current cycle
    msg,         \* per task: the message composed
    sends,       \* per task: messages handed to send_telegram this cycle
    posts,       \* per task: outcomes of the HTTP posts to Telegram
    doc,         \* extract_promos: the page given
    out,         \* extract_promos: what it returned
    rcalls,      \* allowed_by_robots: calls made
    rfetches,    \* allowed_by_robots: fetches of /robots.txt made
    rlast,       \* allowed_by_robots: URL, reply and answer of the last call
    battempts,   \* fetch_with_playwright: calls started
    bpc,         \* fetch_with_playwright: the statement about to run
    bsel,        \* fetch_with_playwright: index in the current selector list
    bopen,       \* per resource: the call that opened it, 0 when closed
    bexc,        \* fetch_with_playwright: the statement whose exception is
                 \* propagating, "none" when none
    bres,        \* fetch_with_playwright: "html", "raised", "none" while running
    bclicks      \* fetch_with_playwright: outcomes of the clicks of this call

config == <<variant, argNow, token, chat, skipRobots>>
service == <<mainpc, scheduler, handler>>
cycle == <<pc, idx, last_err, got, ops, msg, sends, posts>>
robots == <<rcalls, rfetches, rlast>>
browser == <<battempts, bpc, bsel, bopen, bexc, bres, bclicks>>
vars == <<config, service, loop, cycles, cycle, doc, out, robots, browser>>

Resources == {"driver", "browser", "context", "page"}
NothingOpen == [r \in Resources |-> 0]

NoCall == [url |-> "none", reply |-> NoReply, allowed |-> FALSE]

Init ==
    /\ variant \in Variants
    /\ argNow \in BOOLEAN
    /\ token \in BOOLEAN
    /\ chat \in BOOLEAN
    /\ skipRobots \in (IF variant = "headless" THEN BOOLEAN ELSE {FALSE})
    /\ mainpc = "start"
    /\ scheduler = "none"
    /\ handler = FALSE
    /\ loop = "free"
    /\ cycles = 0
    /\ pc = [t \in Tasks |-> "idle"]
    /\ idx = [t \in Tasks |-> 1]
    /\ last_err = [t \in Tasks |-> NoErr]
    /\ got = [t \in Tasks |-> NoResult]
    /\ ops = [t \in Tasks |-> <<>>]
    /\ msg = [t \in Tasks |-> NoMsg]
    /\ sends = [t \in Tasks |-> <<>>]
    /\ posts = [t \in Tasks |-> <<>>]
    /\ doc = <<>>
    /\ out = extract_promos(variant, <<>>)
    /\ rcalls = 0
    /\ rfetches = 0
    /\ rlast = NoCall
    /\ battempts = 0
    /\ bpc = "idle"
    /\ bsel = 1
    /\ bopen = NothingOpen
    /\ bexc = "none"
    /\ bres = "none"
    /\ bclicks = <<>>

\* Mutant of EnterJob: last_err outlives the call, as a module-level variable
\* would.
Mut_EnterJob_keeps_last_err(t) ==
    /\ cycles' = cycles + 1
    /\ pc' = [pc EXCEPT ![t] = "gate"]
    /\ idx' = [idx EXCEPT ![t] = 1]
    /\ UNCHANGED last_err
    /\ got' = [got EXCEPT ![t] = NoResult]
    /\ ops' = [ops EXCEPT ![t] = <<>>]
    /\ msg' = [msg EXCEPT ![t] = NoMsg]
    /\ sends' = [sends EXCEPT ![t] = <<>>]
    /\ posts' = [posts EXCEPT ![t] = <<>>]
    /\ loop' = t

\* job_once is entered by task t: a fresh cycle, nothing kept from before.
EnterJob(t) ==
    /\ cycles' = cycles + 1
    /\ pc' = [pc EXCEPT ![t] = "gate"]
    /\ idx' = [idx EXCEPT ![t] = 1]
    /\ last_err' = [last_err EXCEPT ![t] = NoErr]
    /\ got' = [got EXCEPT ![t] = NoResult]
    /\ ops' = [ops EXCEPT ![t] = <<>>]
    /\ msg' = [msg EXCEPT ![t] = NoMsg]
    /\ sends' = [sends EXCEPT ![t] = <<>>]
    /\ posts' = [posts EXCEPT ![t] = <<>>]
    /\ loop' = t

\* job_once returns in task t.
LeaveJob(t) ==
    /\ pc' = [pc EXCEPT ![t] = "idle"]
    /\ loop' = "free"
    /\ mainpc' = IF t = "cli" THEN "exit" ELSE mainpc

\* An await of the headless program gives the event loop back; the basic
\* program is synchronous and keeps the interpreter.
Suspend(t) == IF variant = "headless" THEN "free" ELSE t

Resumable(t) == loop = Suspend(t)

\* main: "now" runs one cycle and exits.  Otherwise the daily job is added;
\* the headless program starts the scheduler, then the bot when a token is
\* set; the basic program runs the bot's polling when a token is set and
\* starts the scheduler only when none is.
main ==
    /\ mainpc = "start"
    /\ IF argNow
       THEN /\ EnterJob("cli")
            /\ mainpc' = "once"
            /\ UNCHANGED <<scheduler, handler>>
       ELSE /\ mainpc' = "service"
            /\ scheduler' = IF variant = "headless" \/ ~token
                            THEN "running" ELSE "configured"
            /\ handler' = token
            /\ UNCHANGED <<loop, cycles, cycle>>
    /\ UNCHANGED <<config, robots, browser, doc, out>>

\* The scheduler fires the daily job (one instance at a time).
cron_fires ==
    /\ mainpc = "service"
    /\ scheduler = "running"
    /\ pc["cron"] = "idle"
    /\ loop = "free"
    /\ cycles < MaxCycles
    /\ EnterJob("cron")
    /\ UNCHANGED <<config, robots, browser, service, doc, out>>

\* telegram_now: /now is received; the handler awaits the acknowledgement.
telegram_now ==
    /\ mainpc = "service"
    /\ handler
    /\ pc["now"] = "idle"
    /\ loop = "free"
    /\ cycles < MaxCycles
    /\ pc' = [pc EXCEPT !["now"] = "ack"]
    /\ UNCHANGED <<config, robots, browser, service, loop, cycles, idx,
                   last_err, got, ops, msg, sends, posts, doc, out>>

\* telegram_now: the acknowledgement was sent and job_once is called, or
\* sending it raised and the handler ends there.
telegram_now_acked ==
    /\ pc["now"] = "ack"
    /\ loop = "free"
    /\ \E sent \in BOOLEAN :
          IF sent
          THEN EnterJob("now")
          ELSE /\ pc' = [pc EXCEPT !["now"] = "idle"]
               /\ UNCHANGED <<loop, cycles, idx, last_err, got, ops, msg,
                              sends, posts>>
    /\ UNCHANGED <<config, robots, browser, service, doc, out>>

\* Where the walk goes after candidate idx[t] is done with.
NextCandidate(t) ==
    IF idx[t] < Len(CandidateUrls(variant)) THEN "gate" ELSE "raise"

\* fetch_first_ok, lines 162-169 (basic job_once, lines 81-85): the gate
\* check of the current candidate.  Refused: the headless program goes to
\* the next candidate, the basic one returns.  Allowed: the headless program
\* starts the Playwright fetch and awaits it, the basic one goes on to
\* fetch_promotions.
gate(t) ==
    /\ pc[t] = "gate"
    /\ loop = t
    /\ \E reply \in RobotsReplies :
        LET url == CandidateUrls(variant)[idx[t]]
            allowed == allowed_by_robots(variant, skipRobots, reply, url)
            checked == Append(ops[t],
                              Op("robots", url,
                                 IF allowed THEN "allowed" ELSE "refused",
                                 "none"))
        IN  IF gate_skips(allowed)
            THEN /\ ops' = [ops EXCEPT ![t] = checked]
                 /\ IF variant = "headless"
                    THEN /\ pc' = [pc EXCEPT ![t] = NextCandidate(t)]
                         /\ idx' = [idx EXCEPT ![t] = idx[t] + 1]
                         /\ UNCHANGED <<loop, mainpc>>
                    ELSE /\ LeaveJob(t)
                         /\ UNCHANGED idx
            ELSE IF variant = "headless"
            THEN /\ ops' = [ops EXCEPT ![t] =
                               Append(checked, Op("pw", url, "pending", "none"))]
                 /\ pc' = [pc EXCEPT ![t] = "pw"]
                 /\ loop' = "free"
                 /\ UNCHANGED <<idx, mainpc>>
            ELSE /\ ops' = [ops EXCEPT ![t] = checked]
                 /\ pc' = [pc EXCEPT ![t] = "req"]
                 /\ UNCHANGED <<idx, loop, mainpc>>
    /\ UNCHANGED <<config, robots, browser, scheduler, handler, cycles,
                   last_err, got, msg, sends, posts, doc, out>>

\* The pending fetch of task t is settled with result res.
Settle(t, res, page) ==
    [ops[t] EXCEPT ![Len(ops[t])].res = res, ![Len(ops[t])].page = page]

\* fetch_first_ok, lines 169-174: fetch_with_playwright returns the page, or
\* raises and the error is kept in last_err.
playwright_returns(t) ==
    /\ pc[t] = "pw"
    /\ loop = "free"
    /\ LET url == CandidateUrls(variant)[idx[t]]
       IN  \E page \in PageNames \cup {"none"} :
             IF page # "none"
             THEN /\ ops' = [ops EXCEPT ![t] = Settle(t, "ok", page)]
                  /\ got' = [got EXCEPT ![t] = [url |-> url, page |-> page]]
                  /\ pc' = [pc EXCEPT ![t] = after_playwright_ok]
                  /\ UNCHANGED last_err
             ELSE /\ ops' = [ops EXCEPT ![t] = Settle(t, "fail", "none")]
                  /\ last_err' = [last_err EXCEPT ![t] =
                                     [by |-> "pw", url |-> url]]
                  /\ pc' = [pc EXCEPT ![t] = after_playwright_fail]
                  /\ UNCHANGED got
    /\ loop' = t
    /\ UNCHANGED <<config, robots, browser, service, cycles, idx, msg, sends,
                   posts, doc, out>>

\* fetch_first_ok, lines 177-179: fetch_requests is handed to the executor
\* (basic job_once, line 85: fetch_promotions is called).
requests_starts(t) ==
    /\ pc[t] = "req"
    /\ loop = t
    /\ ops' = [ops EXCEPT ![t] =
                  Append(ops[t], Op("req", CandidateUrls(variant)[idx[t]],
                                    "pending", "none"))]
    /\ pc' = [pc EXCEPT ![t] = "req_wait"]
    /\ loop' = Suspend(t)
    /\ UNCHANGED <<config, robots, browser, service, cycles, idx, last_err,
                   got, msg, sends, posts, doc, out>>

\* fetch_first_ok, lines 179-184: the GET returns the page, or fails (error
\* or non-success status) and the walk goes to the next candidate.  Basic
\* job_once, lines 85-88: a failure is logged and job_once returns.
requests_returns(t) ==
    /\ pc[t] = "req_wait"
    /\ Resumable(t)
    /\ LET url == CandidateUrls(variant)[idx[t]]
       IN  \E page \in PageNames \cup {"none"} :
             IF page # "none"
             THEN /\ ops' = [ops EXCEPT ![t] = Settle(t, "ok", page)]
                  /\ got' = [got EXCEPT ![t] = [url |-> url, page |-> page]]
                  /\ pc' = [pc EXCEPT ![t] = "extract"]
                  /\ loop' = t
                  /\ UNCHANGED <<idx, last_err, mainpc>>
             ELSE /\ ops' = [ops EXCEPT ![t] = Settle(t, "fail", "none")]
                  /\ UNCHANGED got
                  /\ IF variant = "headless"
                     THEN /\ last_err' = [last_err EXCEPT ![t] =
                                             [by |-> "req", url |-> url]]
                          /\ pc' = [pc EXCEPT ![t] = NextCandidate(t)]
                          /\ idx' = [idx EXCEPT ![t] = idx[t] + 1]
                          /\ loop' = t
                          /\ UNCHANGED mainpc
                     ELSE /\ LeaveJob(t)
                          /\ UNCHANGED <<idx, last_err>>
    /\ UNCHANGED <<config, robots, browser, scheduler, handler, cycles, msg,
                   sends, posts, doc, out>>

\* fetch_first_ok, line 186, and job_once, lines 193-195: every candidate
\* was skipped or failed; the error raised becomes the error message.
acquisition_fails(t) ==
    /\ pc[t] = "raise"
    /\ loop = t
    /\ msg' = [msg EXCEPT ![t] = ErrorMsg(raise_last_err(last_err[t]))]
    /\ pc' = [pc EXCEPT ![t] = "send"]
    /\ UNCHANGED <<config, robots, browser, service, loop, cycles, idx,
                   last_err, got, ops, sends, posts, doc, out>>

\* job_once, lines 198-207: extract_promos on the page, then the message.
extract(t) ==
    /\ pc[t] = "extract"
    /\ loop = t
    /\ doc' = PageDoc(got[t].page)
    /\ out' = extract_promos(variant, doc')
    /\ msg' = [msg EXCEPT ![t] = compose(variant, out', got[t].url)]
    /\ pc' = [pc EXCEPT ![t] = "send"]
    /\ UNCHANGED <<config, robots, browser, service, loop, cycles, idx,
                   last_err, got, ops, sends, posts>>

\* send_telegram, lines 70-78: without token and chat id nothing is sent and
\* job_once returns; otherwise the message is posted.
send_telegram(t) ==
    /\ pc[t] = "send"
    /\ loop = t
    /\ sends' = [sends EXCEPT ![t] = Append(sends[t], msg[t])]
    /\ IF token /\ chat
       THEN /\ pc' = [pc EXCEPT ![t] = "post"]
            /\ loop' = Suspend(t)
            /\ UNCHANGED mainpc
       ELSE LeaveJob(t)
    /\ UNCHANGED <<config, robots, browser, scheduler, handler, cycles, idx,
                   last_err, got, ops, msg, posts, doc, out>>

\* send_telegram, lines 78-80: the post returns (whatever its status) or
\* raises; either way send_telegram returns, and job_once with it.
PostOutcomes == {"delivered", "rejected", "raised"}

\* Mutant of after_post: a post that did not deliver is made again.
Mut_after_post_retries(o) == IF o = "delivered" THEN "return" ELSE "retry"

\* lines 76-80: one post inside `try`, no status check, `except Exception`
\* logs; send_telegram returns after the single attempt.
after_post(o) == "return"

post_returns(t) ==
    /\ pc[t] = "post"
    /\ Resumable(t)
    /\ \E o \in PostOutcomes :
          /\ posts' = [posts EXCEPT ![t] = Append(posts[t], o)]
          /\ IF after_post(o) = "return"
             THEN LeaveJob(t)
             ELSE IF after_post(o) = "retry"
             THEN UNCHANGED <<pc, loop, mainpc>>
             ELSE /\ pc' = [pc EXCEPT ![t] = "crashed"]
                  /\ loop' = "free"
                  /\ UNCHANGED mainpc
    /\ UNCHANGED <<config, robots, browser, scheduler, handler, cycles, idx,
                   last_err, got, ops, msg, sends, doc, out>>

\* The network waits of a cycle and the timeout each is given: rp.read()
\* (line 39) opens /robots.txt with no timeout; page.goto and
\* wait_for_load_state have 30 s and 20 s (lines 114, 143), requests.get
\* 20 s (line 155), requests.post 15 s (line 76).
HasTimeout(wait) == wait \in {"pw", "req", "post"}

\* The wait task t is in: at the gate (when a policy is fetched), or at one
\* of the awaits; "none" elsewhere.
WaitOf(t) ==
    IF pc[t] = "gate"
    THEN IF loop = t /\ robots_fetched(variant, skipRobots)
         THEN "robots" ELSE "none"
    ELSE IF pc[t] = "pw" THEN "pw"
    ELSE IF pc[t] = "req_wait" THEN "req"
    ELSE IF pc[t] = "post" THEN "post"
    ELSE "none"

\* The remote peer never answers.  A wait with a timeout ends as a failure
\* (an outcome of the step's own action); one without never ends.
peer_silent(t) ==
    /\ WaitOf(t) # "none"
    /\ ~HasTimeout(WaitOf(t))
    /\ pc' = [pc EXCEPT ![t] = "hung"]
    /\ UNCHANGED <<config, robots, browser, service, loop, cycles, idx,
                   last_err, got, ops, msg, sends, posts, doc, out>>

job_once(t) ==
    \/ gate(t)
    \/ peer_silent(t)
    \/ playwright_returns(t)
    \/ requests_starts(t)
    \/ requests_returns(t)
    \/ acquisition_fails(t)
    \/ extract(t)
    \/ send_telegram(t)
    \/ post_returns(t)

Next ==
    \/ main
    \/ cron_fires
    \/ telegram_now
    \/ telegram_now_acked
    \/ \E t \in Tasks : job_once(t)

Spec == Init /\ [][Next]_vars

\* -------------------------------------------------- extract_promos alone
InitExtract ==
    /\ variant \in Variants
    /\ argNow = FALSE
    /\ token = FALSE
    /\ chat = FALSE
    /\ skipRobots = FALSE
    /\ mainpc = "start"
    /\ scheduler = "none"
    /\ handler = FALSE
    /\ loop = "free"
    /\ cycles = 0
    /\ pc = [t \in Tasks |-> "idle"]
    /\ idx = [t \in Tasks |-> 1]
    /\ last_err = [t \in Tasks |-> NoErr]
    /\ got = [t \in Tasks |-> NoResult]
    /\ ops = [t \in Tasks |-> <<>>]
    /\ msg = [t \in Tasks |-> NoMsg]
    /\ sends = [t \in Tasks |-> <<>>]
    /\ posts = [t \in Tasks |-> <<>>]
    /\ doc = <<>>
    /\ out = extract_promos(variant, <<>>)
    /\ rcalls = 0
    /\ rfetches = 0
    /\ rlast = NoCall
    /\ battempts = 0
    /\ bpc = "idle"
    /\ bsel = 1
    /\ bopen = NothingOpen
    /\ bexc = "none"
    /\ bres = "none"
    /\ bclicks = <<>>

\* one more text element, then extract_promos on the page and job_once's
\* message for what it returned
ExtractText ==
    /\ Len(doc) < MaxTextNodes
    /\ Range(doc) \subseteq TextNodes
    /\ \E e \in TextNodes :
          /\ doc' = Append(doc, e)
          /\ out' = extract_promos(variant, doc')
          /\ msg' = [msg EXCEPT !["cli"] =
                         compose(variant, out', CandidateUrls(variant)[1])]
    /\ UNCHANGED <<config, robots, browser, service, loop, cycles, pc, idx,
                   last_err, got, ops, sends, posts>>

\* one more card-like element, then extract_promos on the page and
\* job_once's message for what it returned
ExtractCard ==
    /\ Len(doc) < MaxCardNodes
    /\ Range(doc) \subseteq CardNodes
    /\ \E e \in CardNodes :
          /\ doc' = Append(doc, e)
          /\ out' = extract_promos(variant, doc')
          /\ msg' = [msg EXCEPT !["cli"] =
                         compose(variant, out', CandidateUrls(variant)[1])]
    /\ UNCHANGED <<config, robots, browser, service, loop, cycles, pc, idx,
                   last_err, got, ops, sends, posts>>

NextExtract == ExtractText \/ ExtractCard

SpecExtract == InitExtract /\ [][NextExtract]_vars

\* ----------------------------------------------- allowed_by_robots alone
MaxRobotsCalls == 3

InitRobots ==
    /\ variant \in Variants
    /\ argNow = FALSE
    /\ token = FALSE
    /\ chat = FALSE
    /\ skipRobots \in (IF variant = "headless" THEN BOOLEAN ELSE {FALSE})
    /\ mainpc = "start"
    /\ scheduler = "none"
    /\ handler = FALSE
    /\ loop = "free"
    /\ cycles = 0
    /\ pc = [t \in Tasks |-> "idle"]
    /\ idx = [t \in Tasks |-> 1]
    /\ last_err = [t \in Tasks |-> NoErr]
    /\ got = [t \in Tasks |-> NoResult]
    /\ ops = [t \in Tasks |-> <<>>]
    /\ msg = [t \in Tasks |-> NoMsg]
    /\ sends = [t \in Tasks |-> <<>>]
    /\ posts = [t \in Tasks |-> <<>>]
    /\ doc = <<>>
    /\ out = extract_promos(variant, <<>>)
    /\ rcalls = 0
    /\ rfetches = 0
    /\ rlast = NoCall
    /\ battempts = 0
    /\ bpc = "idle"
    /\ bsel = 1
    /\ bopen = NothingOpen
    /\ bexc = "none"
    /\ bres = "none"
    /\ bclicks = <<>>

\* One call of allowed_by_robots(url) while the site answers `reply` to a
\* fetch of /robots.txt.  With SKIP_ROBOTS nothing is fetched.
robots_call ==
    /\ rcalls < MaxRobotsCalls
    /\ \E url \in UrlSet, reply \in RobotsReplies :
          LET fetched == robots_fetched(variant, skipRobots)
              policy == policy_used(rlast.reply, reply)
          IN  /\ rcalls' = rcalls + 1
              /\ rfetches' = rfetches + (IF fetched THEN 1 ELSE 0)
              /\ rlast' = [url |-> url,
                           reply |-> IF fetched THEN reply ELSE NoReply,
                           allowed |-> allowed_by_robots(variant, skipRobots,
                                                         policy, url)]
    /\ UNCHANGED <<config, browser, service, loop, cycles, cycle, doc, out>>

NextRobots == robots_call

SpecRobots == InitRobots /\ [][NextRobots]_vars

\* ------------------------------------------- fetch_with_playwright alone
MaxAttempts == 2

NumConsentSelectors == 3
NumCloseSelectors == 2

InitBrowser ==
    /\ variant = "headless"
    /\ argNow = FALSE
    /\ token = FALSE
    /\ chat = FALSE
    /\ skipRobots = FALSE
    /\ mainpc = "start"
    /\ scheduler = "none"
    /\ handler = FALSE
    /\ loop = "free"
    /\ cycles = 0
    /\ pc = [t \in Tasks |-> "idle"]
    /\ idx = [t \in Tasks |-> 1]
    /\ last_err = [t \in Tasks |-> NoErr]
    /\ got = [t \in Tasks |-> NoResult]
    /\ ops = [t \in Tasks |-> <<>>]
    /\ msg = [t \in Tasks |-> NoMsg]
    /\ sends = [t \in Tasks |-> <<>>]
    /\ posts = [t \in Tasks |-> <<>>]
    /\ doc = <<>>
    /\ out = extract_promos(variant, <<>>)
    /\ rcalls = 0
    /\ rfetches = 0
    /\ rlast = NoCall
    /\ battempts = 0
    /\ bpc = "idle"
    /\ bsel = 1
    /\ bopen = NothingOpen
    /\ bexc = "none"
    /\ bres = "none"
    /\ bclicks = <<>>

Outside == <<config, service, loop, cycles, cycle, doc, out, robots>>

\* One awaited statement of fetch_with_playwright: it completes, opening
\* `opened` (if any) and going on to `next`, or raises and control goes to
\* `onraise`.
Step(name, next, opened, onraise) ==
    /\ bpc = name
    /\ \E ok \in BOOLEAN :
          IF ok
          THEN /\ bpc' = next
               /\ bopen' = IF opened \in Resources
                           THEN [bopen EXCEPT ![opened] = battempts]
                           ELSE bopen
               /\ UNCHANGED bexc
          ELSE /\ bpc' = onraise
               /\ bexc' = name
               /\ UNCHANGED bopen
    /\ UNCHANGED <<battempts, bsel, bres, bclicks, Outside>>

\* fetch_with_playwright(url) is called.
pw_call ==
    /\ bpc = "idle"
    /\ battempts < MaxAttempts
    /\ battempts' = battempts + 1
    /\ bpc' = "start"
    /\ bsel' = 1
    /\ bexc' = "none"
    /\ bres' = "none"
    /\ bclicks' = <<>>
    /\ UNCHANGED <<bopen, Outside>>

\* line 84: `async with async_playwright() as p` starts the driver; when
\* that fails nothing was opened and the call raises.
pw_start ==
    /\ bpc = "start"
    /\ \E ok \in BOOLEAN :
          IF ok
          THEN /\ bpc' = "launch"
               /\ bopen' = [bopen EXCEPT !["driver"] = battempts]
               /\ UNCHANGED <<bexc, bres>>
          ELSE /\ bpc' = "idle"
               /\ bexc' = "start"
               /\ bres' = "raised"
               /\ UNCHANGED bopen
    /\ UNCHANGED <<battempts, bsel, bclicks, Outside>>

\* lines 85-112 run before the `try`: an exception there leaves through the
\* `async with` only.
pw_launch == Step("launch", "new_context", "browser", "exit")
pw_new_context == Step("new_context", "add_init_script", "context", "exit")
pw_add_init_script == Step("add_init_script", "new_page", "none", "exit")
pw_new_page == Step("new_page", "goto", "page", "exit")

\* line 114, inside the `try`: an exception goes to the `finally`.
pw_goto == Step("goto", "consent", "none", "ctx_close")

\* What one click attempt can do: click, give up at its timeout (PWTimeout),
\* or fail with another playwright error.
ClickOutcomes == {"clicked", "timeout", "error"}

\* lines 122-128 and 135-141: a click that succeeds ends the loop, a
\* PWTimeout is passed over, any other exception is not caught.
after_click(o) ==
    IF o = "clicked" THEN "break"
    ELSE IF o = "timeout" THEN "pass"
    ELSE "raise"

Selectors(phase) ==
    IF phase = "consent" THEN NumConsentSelectors ELSE NumCloseSelectors

AfterClicks(phase) == IF phase = "consent" THEN "close" ELSE "settle"

\* One pass of the consent loop (lines 122-128) or of the modal loop (lines
\* 135-141): the click on selector bsel.
pw_click ==
    /\ bpc \in {"consent", "close"}
    /\ \E o \in ClickOutcomes :
          /\ bclicks' = Append(bclicks, [phase |-> bpc, sel |-> bsel, res |-> o])
          /\ IF after_click(o) = "raise"
             THEN /\ bpc' = "ctx_close"
                  /\ bexc' = bpc
                  /\ UNCHANGED bsel
             ELSE IF after_click(o) = "pass" /\ bsel < Selectors(bpc)
             THEN /\ bsel' = bsel + 1
                  /\ UNCHANGED <<bpc, bexc>>
             ELSE /\ bpc' = AfterClicks(bpc)
                  /\ bsel' = 1
                  /\ UNCHANGED bexc
    /\ UNCHANGED <<battempts, bopen, bres, Outside>>

\* lines 143-144: wait_for_load_state("networkidle") and the extra sleep.
pw_settle == Step("settle", "content", "none", "ctx_close")

\* lines 146-147: page.content(), then `return html` through the `finally`.
pw_content == Step("content", "ctx_close", "none", "ctx_close")

\* line 149, in the `finally`: ctx.close() closes the context and its page;
\* when it raises, line 150 is not run and its exception is the one that
\* propagates.
pw_ctx_close ==
    /\ bpc = "ctx_close"
    /\ \E ok \in BOOLEAN :
          IF ok
          THEN /\ bpc' = "browser_close"
               /\ bopen' = [bopen EXCEPT !["context"] = 0, !["page"] = 0]
               /\ UNCHANGED bexc
          ELSE /\ bpc' = "exit"
               /\ bexc' = "ctx_close"
               /\ UNCHANGED bopen
    /\ UNCHANGED <<battempts, bsel, bres, bclicks, Outside>>

\* line 150: browser.close() closes the browser with all it holds.
pw_browser_close ==
    /\ bpc = "browser_close"
    /\ \E ok \in BOOLEAN :
          IF ok
          THEN /\ bopen' = [bopen EXCEPT !["browser"] = 0, !["context"] = 0,
                                         !["page"] = 0]
               /\ UNCHANGED bexc
          ELSE /\ bexc' = "browser_close"
               /\ UNCHANGED bopen
    /\ bpc' = "exit"
    /\ UNCHANGED <<battempts, bsel, bres, bclicks, Outside>>

\* Mutant of playwright_exit: leaving the block stops the driver's
\* connection only and the browsers it launched live on.
Mut_exit_keeps_browsers(open) == [open EXCEPT !["driver"] = 0]

\* line 84: leaving `async with async_playwright()` stops the driver, which
\* closes every browser it launched, with their contexts and pages.
playwright_exit(open) == NothingOpen

\* The call returns the html, or raises the exception that is propagating.
pw_exit ==
    /\ bpc = "exit"
    /\ bopen' = playwright_exit(bopen)
    /\ bres' = IF bexc = "none" THEN "html" ELSE "raised"
    /\ bpc' = "idle"
    /\ UNCHANGED <<battempts, bsel, bexc, bclicks, Outside>>

fetch_with_playwright ==
    \/ pw_call
    \/ pw_start
    \/ pw_launch
    \/ pw_new_context
    \/ pw_add_init_script
    \/ pw_new_page
    \/ pw_goto
    \/ pw_click
    \/ pw_settle
    \/ pw_content
    \/ pw_ctx_close
    \/ pw_browser_close
    \/ pw_exit

SpecBrowser == InitBrowser /\ [][fetch_with_playwright]_vars

\* ------------------------------------------------------------- properties
UrlIndex(u) == CHOOSE i \in 1..Len(PROMO_URLS) : PROMO_URLS[i] = u

IsFetch(o) == o.op \in {"pw", "req"}

Refused(o, u) ==
    \E i \in 1..Len(o) : o[i].op = "robots" /\ o[i].url = u /\ o[i].res = "refused"

FailedBy(o, op, u) ==
    \E i \in 1..Len(o) : o[i].op = op /\ o[i].url = u /\ o[i].res = "fail"

Fetched(o, u) == \E i \in 1..Len(o) : IsFetch(o[i]) /\ o[i].url = u

\* Every candidate was refused by the gate or failed both strategies.
Exhausted(o) ==
    \A u \in UrlSet : Refused(o, u) \/ (FailedBy(o, "pw", u) /\ FailedBy(o, "req", u))

InFlight(t) == pc[t] \notin {"idle", "ack"}

\* C1: fetch_first_ok walks the candidates in list order and returns the
\* (url, html) of the first candidate that the gate allows and one strategy
\* fetches; after a successful fetch nothing more is gate-checked or fetched
\* in that cycle.
C1_ShortCircuit ==
    variant = "headless" =>
      \A t \in Tasks :
        LET o == ops[t]
            n == Len(o)
        IN  /\ \A i, j \in 1..n : i < j => UrlIndex(o[i].url) <= UrlIndex(o[j].url)
            /\ \A i \in 1..n : (IsFetch(o[i]) /\ o[i].res = "ok") => i = n
            /\ (n > 0 /\ IsFetch(o[n]) /\ o[n].res = "ok") =>
                   got[t] = [url |-> o[n].url, page |-> o[n].page]
            /\ got[t] # NoResult =>
                 /\ n > 0 /\ IsFetch(o[n]) /\ o[n].res = "ok"
                 /\ got[t] = [url |-> o[n].url, page |-> o[n].page]
                 /\ \A u \in UrlSet :
                      UrlIndex(u) < UrlIndex(got[t].url) =>
                        \/ Refused(o, u)
                        \/ FailedBy(o, "pw", u) /\ FailedBy(o, "req", u)

\* C1 witness: the first candidate failed both strategies and the second
\* was returned.
C1_Witness ==
    /\ variant = "headless"
    /\ \E t \in Tasks :
          /\ got[t].url = PROMO_URLS[2]
          /\ FailedBy(ops[t], "pw", PROMO_URLS[1])
          /\ FailedBy(ops[t], "req", PROMO_URLS[1])

\* C2: no page fetch (Playwright or GET) is issued for a URL unless
\* allowed_by_robots returned true for it earlier in the same cycle; a
\* refused candidate is never fetched and records no error; with the first
\* candidate refused and the second fetched, the result is the second's.
C2_GateBeforeFetch ==
    \A t \in Tasks :
      LET o == ops[t]
          n == Len(o)
      IN  /\ \A i \in 1..n :
                IsFetch(o[i]) =>
                  \E j \in 1..(i - 1) :
                     o[j].op = "robots" /\ o[j].url = o[i].url /\ o[j].res = "allowed"
          /\ \A u \in UrlSet : Refused(o, u) => ~Fetched(o, u)
          /\ last_err[t] # NoErr => FailedBy(o, last_err[t].by, last_err[t].url)
          /\ (\A i \in 1..n : o[i].op = "robots" /\ o[i].res = "refused")
                => last_err[t] = NoErr
          /\ (n > 0 /\ o[1].res = "refused" /\ got[t] # NoResult) =>
                got[t].url = PROMO_URLS[2] /\ ~Fetched(o, PROMO_URLS[1])

\* C2 witness: candidate A refused, candidate B fetched and returned.
C2_Witness ==
    \E t \in Tasks :
       /\ Refused(ops[t], PROMO_URLS[1])
       /\ got[t].url = PROMO_URLS[2]

\* C3: when every candidate is skipped by policy or fails both strategies,
\* fetch_first_ok returns no result and raises; the error is the most recent
\* strategy failure of the cycle (also when later candidates were skipped
\* after it), and the generic error exactly when no fetch was attempted.
C3_LastError ==
    variant = "headless" =>
      \A t \in Tasks :
        LET o == ops[t]
            fails == {i \in 1..Len(o) : IsFetch(o[i]) /\ o[i].res = "fail"}
            latest == o[Max(fails)]
            expected == IF fails = {} THEN GenericErr
                        ELSE [by |-> latest.op, url |-> latest.url]
        IN  /\ Exhausted(o) =>
                 /\ got[t] = NoResult
                 /\ ~InFlight(t) \/ pc[t] \in {"raise", "send", "post"}
                 /\ pc[t] # "raise" =>
                      /\ msg[t].kind = "error"
                      /\ msg[t].err = expected
                      /\ msg[t].err = GenericErr <=> ~(\E i \in 1..Len(o) : IsFetch(o[i]))
            /\ msg[t].kind = "error" => Exhausted(o)

\* C3 witness: the first candidate failed both strategies, the second was
\* skipped by policy, and the error raised is the first one's GET failure.
C3_Witness ==
    /\ variant = "headless"
    /\ \E t \in Tasks :
          /\ msg[t].kind = "error"
          /\ msg[t].err = [by |-> "req", url |-> PROMO_URLS[1]]
          /\ Refused(ops[t], PROMO_URLS[2])

\* C4: for each allowed candidate Playwright is attempted first and requests
\* if and only if Playwright failed for that URL; a failure of either never
\* aborts the walk; each (URL, strategy) pair is attempted at most once in a
\* cycle.
C4_Fallback ==
    variant = "headless" =>
      \A t \in Tasks :
        LET o == ops[t]
            n == Len(o)
        IN  /\ \A i \in 1..n :
                 (o[i].op = "robots" /\ o[i].res = "allowed") =>
                    i < n /\ o[i + 1].op = "pw" /\ o[i + 1].url = o[i].url
            /\ \A i \in 1..n :
                 o[i].op = "pw" =>
                    /\ i > 1
                    /\ o[i - 1].op = "robots"
                    /\ o[i - 1].url = o[i].url
            /\ \A i \in 1..n :
                 o[i].op = "req" =>
                    /\ i > 1
                    /\ o[i - 1].op = "pw"
                    /\ o[i - 1].url = o[i].url
                    /\ o[i - 1].res = "fail"
            /\ \A i \in 1..n :
                 (o[i].op = "pw" /\ o[i].res = "fail") =>
                    IF i < n THEN o[i + 1].op = "req" /\ o[i + 1].url = o[i].url
                    ELSE pc[t] = "req" /\ loop = t
            /\ \A i \in 1..n :
                 (o[i].op = "req" /\ o[i].res = "fail"
                    /\ UrlIndex(o[i].url) < Len(PROMO_URLS)) =>
                    IF i < n
                    THEN /\ o[i + 1].op = "robots"
                         /\ UrlIndex(o[i + 1].url) = UrlIndex(o[i].url) + 1
                    ELSE /\ pc[t] \in {"gate", "hung"}
                         /\ idx[t] = UrlIndex(o[i].url) + 1
            /\ \A i, j \in 1..n :
                 (i # j /\ o[i].op = o[j].op) => o[i].url # o[j].url

\* C4 witness: both strategies failed for the first candidate and the walk
\* went on to the second, whose Playwright fetch failed too.
C4_Witness ==
    /\ variant = "headless"
    /\ \E t \in Tasks :
          /\ Len(ops[t]) >= 5
          /\ ops[t][2].op = "pw" /\ ops[t][2].res = "fail"
          /\ ops[t][3].op = "req" /\ ops[t][3].res = "fail"
          /\ ops[t][4].op = "robots" /\ ops[t][4].url = PROMO_URLS[2]
          /\ ops[t][5].op = "pw" /\ ops[t][5].res = "fail"

\* C5: whenever acquisition fails for a cycle, job_once hands exactly one
\* error message (not the alert, not the "nothing found" message) to the
\* sink, extracts nothing and returns normally.
C5_ErrorNotified ==
    \A t \in Tasks :
       (pc[t] = "idle" /\ ops[t] # <<>> /\ got[t] = NoResult) =>
          /\ Len(sends[t]) = 1
          /\ sends[t][1].kind = "error"
          /\ msg[t].kind = "error"

\* C6: at most one discovery cycle is in flight at any time, under every
\* interleaving of the daily cron trigger and the /now command.
C6_Serialized == Cardinality({t \in Tasks : InFlight(t)}) <= 1

\* C7: in service mode both triggers are live and reach job_once, with or
\* without a bot token: the scheduler that fires the daily job is running,
\* and wherever a bot exists (a token is set) its /now handler is registered
\* and polled.
C7_BothTriggersLive ==
    mainpc = "service" => (scheduler = "running" /\ (token => handler))

\* C8: the hit list holds a magnitude m if and only if some percentage token
\* of magnitude m >= 50 occurs in the text, and each such magnitude appears
\* exactly once in the list, whatever the signs of its occurrences.
C8_UniqueMagnitudes ==
    LET toks == found(doc)
        h == out.hits
    IN  /\ {Abs(h[i]) : i \in 1..Len(h)}
             = {m \in {Abs(toks[i]) : i \in 1..Len(toks)} : m >= THRESHOLD}
        /\ \A i, j \in 1..Len(h) : i # j => Abs(h[i]) # Abs(h[j])

\* C9: the hit list, and the percentages listed in the alert header built
\* from it, are in descending order of magnitude, also when negative and
\* unsigned tokens are mixed.
C9_DescendingMagnitude ==
    LET h == out.hits
        l == AlertHeader(out.hits).listed
    IN  /\ \A i, j \in 1..Len(h) : i < j => Abs(h[i]) >= Abs(h[j])
        /\ \A i, j \in 1..Len(l) : i < j => l[i] >= l[j]

\* The elements of the page that are selected as cards and whose normalised
\* text holds a percentage token, by position.
Qualifying == {i \in 1..Len(doc) :
                  SelectsCard(variant, doc[i]) /\ PctSearch(Collapse(doc[i].text))}

\* C10: extract_promos returns at most 5 snippets, each at most 220
\* characters long, each the (cut) text of a selected card-like element that
\* holds a percentage token, and they are the first 5 such elements in
\* document order.
C10_Snippets ==
    LET c == out.cards
        texts == [i \in 1..Len(doc) |-> Collapse(doc[i].text)]
        q == {i \in 1..Len(doc) :
                 SelectsCard(variant, doc[i]) /\ PctSearch(texts[i])}
        nth(k) == CHOOSE i \in q : Cardinality({j \in q : j <= i}) = k
    IN  /\ Len(c) <= 5
        /\ Len(c) = (IF Cardinality(q) < 5 THEN Cardinality(q) ELSE 5)
        /\ \A k \in 1..Len(c) :
              LET text == texts[nth(k)]
              IN  /\ Len(c[k]) <= 220
                  /\ Len(c[k]) = (IF Len(text) < 220 THEN Len(text) ELSE 220)
                  /\ c[k] = SubSeq(text, 1, Len(c[k]))

\* C10 witness: more than 5 qualifying elements, 5 snippets kept, one of
\* them cut at 220 characters.
C10_Witness ==
    /\ Cardinality(Qualifying) > 5
    /\ Len(out.cards) = 5
    /\ \E k \in 1..5 : Len(out.cards[k]) = 220
    /\ \E k \in 1..5 : Len(out.cards[k]) < 220

\* The policy document of the last call could not be retrieved or parsed.
Unreadable(reply) ==
    reply.kind \in {"http", "urlerror", "undecodable", "garbage"}

\* C11: when the robots policy cannot be retrieved or parsed (connection
\* error, HTTP 401/403, another 4xx, a 5xx, unparseable content), the answer
\* of allowed_by_robots is the one fixed default of the program, whatever the
\* kind of failure.
C11_FixedDefault ==
    (rcalls > 0 /\ rfetches > 0 /\ Unreadable(rlast.reply))
        => rlast.allowed = RobotsDefault(variant)

\* C12: the message composed by job_once has a discount header if and only
\* if some magnitude qualifies; the header then states the number of distinct
\* qualifying magnitudes, lists min(5, count) of them as positive percentages
\* and the message names the source URL; otherwise the message is only the
\* "none found" statement naming the source URL.
C12_Message ==
    LET m == msg["cli"]
        toks == found(doc)
        mags == {x \in {Abs(toks[i]) : i \in 1..Len(toks)} : x >= THRESHOLD}
        n == Cardinality(mags)
        src == CandidateUrls(variant)[1]
    IN  m.kind # "unset" =>
          /\ (m.kind = "alert") = (mags # {})
          /\ m.url = src
          /\ IF mags # {}
             THEN /\ m.header.count = n
                  /\ Len(m.header.listed) = (IF n < MAX_LISTED THEN n
                                             ELSE MAX_LISTED)
                  /\ \A k \in 1..Len(m.header.listed) :
                        m.header.listed[k] \in mags
             ELSE /\ m.kind = "nothing"
                  /\ m.header = NoHeader
                  /\ m.cards = <<>>

\* C13: in every cycle send_telegram is called at most once and makes at
\* most one post; whether the post delivers, is rejected or raises, job_once
\* has returned once the post is over: nothing is retried and no exception
\* leaves the cycle.
C13_SingleAttempt ==
    \A t \in Tasks :
        /\ pc[t] # "crashed"
        /\ Len(sends[t]) <= 1
        /\ Len(posts[t]) <= 1
        /\ posts[t] # <<>> => ~InFlight(t)

C13_Witness ==
    \E t \in Tasks :
        /\ sends[t] # <<>>
        /\ posts[t] = <<"raised">>
        /\ pc[t] = "idle"

\* C14: with SKIP_ROBOTS set, allowed_by_robots answers allowed on every
\* call and fetches no policy; without it, every call fetches the policy
\* once and its answer is the one that the reply to that very fetch gives
\* for the URL asked, whatever earlier calls read.
C14_SkipOrFresh ==
    IF variant = "headless" /\ skipRobots
    THEN /\ rfetches = 0
         /\ rcalls > 0 => rlast.allowed
    ELSE /\ rfetches = rcalls
         /\ rcalls > 0 =>
              rlast.allowed = (IF RobotsReadRaises(rlast.reply)
                               THEN RobotsDefault(variant)
                               ELSE RobotsCanFetch(rlast.reply, rlast.url))

C14_Witness ==
    /\ variant = "headless"
    /\ skipRobots
    /\ rcalls >= 2
    /\ rfetches = 0
    /\ rlast.allowed

\* The other half of C14's case: a second call without SKIP_ROBOTS that is
\* refused by the policy it has just read.
C14_FreshCall ==
    /\ ~skipRobots
    /\ rcalls >= 2
    /\ rlast.reply.kind = "policy"
    /\ ~rlast.allowed

\* What the environment answered in a cycle, in order: the gate's decisions
\* and the results of the fetches.
Resp(o) == [k \in 1..Len(o) |-> [res |-> o[k].res, page |-> o[k].page]]

Before(first, rest) == [rest EXCEPT !.ops = first \o rest.ops]

Running(o) == [ops |-> o, got |-> NoResult, end |-> "running", err |-> NoErr]

Returned(o, url, page) ==
    [ops |-> o, got |-> [url |-> url, page |-> page], end |-> "ok",
     err |-> NoErr]

\* A first cycle of program v, from candidate i on, given the answers r from
\* position k on and the last error le so far: the operations it performs,
\* what it acquires and how it ends ("ok", "error", "silent" for the basic
\* program's return without a message, "running" when r ends before it).
RECURSIVE FirstCycle(_, _, _, _, _)
FirstCycle(v, r, k, i, le) ==
    IF i > Len(CandidateUrls(v))
    THEN [ops |-> <<>>, got |-> NoResult, end |-> "error",
          err |-> IF le # NoErr THEN le ELSE GenericErr]
    ELSE IF k > Len(r) THEN Running(<<>>)
    ELSE
      LET url == CandidateUrls(v)[i]
          chk == Op("robots", url, r[k].res, "none")
          fetch(op, j) == Op(op, url, r[j].res, r[j].page)
          kreq == IF v = "headless" THEN k + 2 ELSE k + 1
          viaReq(o) ==
              IF kreq > Len(r) THEN Running(o)
              ELSE IF r[kreq].res = "pending"
              THEN Running(Append(o, fetch("req", kreq)))
              ELSE IF r[kreq].res = "ok"
              THEN Returned(Append(o, fetch("req", kreq)), url, r[kreq].page)
              ELSE IF v = "headless"
              THEN Before(Append(o, fetch("req", kreq)),
                          FirstCycle(v, r, kreq + 1, i + 1,
                                     [by |-> "req", url |-> url]))
              ELSE [ops |-> Append(o, fetch("req", kreq)), got |-> NoResult,
                    end |-> "silent", err |-> NoErr]
      IN  IF r[k].res = "refused"
          THEN IF v = "headless"
               THEN Before(<<chk>>, FirstCycle(v, r, k + 1, i + 1, le))
               ELSE [ops |-> <<chk>>, got |-> NoResult, end |-> "silent",
                     err |-> NoErr]
          ELSE IF v # "headless" THEN viaReq(<<chk>>)
          ELSE IF k + 1 > Len(r) THEN Running(<<chk>>)
          ELSE IF r[k + 1].res = "pending"
          THEN Running(<<chk, fetch("pw", k + 1)>>)
          ELSE IF r[k + 1].res = "ok"
          THEN Returned(<<chk, fetch("pw", k + 1)>>, url, r[k + 1].page)
          ELSE viaReq(<<chk, fetch("pw", k + 1)>>)

FirstCycleMsg(v, ref) ==
    IF ref.end = "error" THEN ErrorMsg(ref.err)
    ELSE IF ref.end = "ok"
    THEN compose(v, extract_promos(v, PageDoc(ref.got.page)), ref.got.url)
    ELSE NoMsg

\* C15: a cycle of job_once, whatever cycles came before it and however they
\* ended, performs the operations and produces the message that a first
\* cycle performs and produces for the same answers of the environment.
C15_Independent ==
    \A t \in Tasks :
        LET ref == FirstCycle(variant, Resp(ops[t]), 1, 1, NoErr)
        IN  /\ ops[t] = ref.ops
            /\ got[t] = ref.got
            /\ msg[t] # NoMsg => msg[t] = FirstCycleMsg(variant, ref)
            /\ sends[t] # <<>> => sends[t] = <<FirstCycleMsg(variant, ref)>>
            /\ (~InFlight(t) /\ ops[t] # <<>>) =>
                  /\ ref.end # "running"
                  /\ (sends[t] = <<>>) = (ref.end = "silent")

\* Two cycles are over: the daily job's ended with an error message, the
\* /now cycle's with an alert.
C15_Witness ==
    /\ cycles = 2
    /\ pc["cron"] = "idle"
    /\ pc["now"] = "idle"
    /\ sends["cron"] # <<>>
    /\ msg["cron"].kind = "error"
    /\ sends["now"] # <<>>
    /\ msg["now"].kind = "alert"

C17_ClicksIgnored ==
    /\ bexc \notin {"consent", "close"}
    /\ (\E k \in 1..Len(bclicks) : bclicks[k].res # "clicked") =>
          (bpc \in {"consent", "close"} \/ bexc # "none" \/ bres = "html"
           \/ bpc \in {"settle", "content", "ctx_close", "browser_close", "exit"})

\* C18: every network wait of a cycle has a timeout, so a cycle is never
\* left waiting on a peer that does not answer: no cycle is ever in the
\* state from which it cannot finish.
C18_NeverStuck == \A t \in Tasks : pc[t] # "hung"

====
